---- MODULE Spec2Model ----
(***************************************************************************)
(* State-machine model of the stellar client: the reconnecting push        *)
(* channel (WebSocketService), the chunk store (stores), the viewer's      *)
(* sliding-window cleanup (GaussianViewer), the upload scheduler           *)
(* (ImageUploadService), the rolling log (addLog) and the PLY codec and    *)
(* merge (PLYMerger).                                                      *)
(*                                                                         *)
(* JavaScript runs one task at a time and drains the microtask queue after *)
(* every callback, so an action is one task (an event handler or a timer   *)
(* callback) together with the promise continuations it releases.          *)
(***************************************************************************)
EXTENDS Integers, Sequences, FiniteSets, Bags, TLC

(***************************************************************************)
(* Bounds of the model.                                                    *)
(***************************************************************************)
\* WebSocket objects that may be alive (not yet closed) at the same time
MaxChannels == 2
\* sessions the user creates in one behaviour
MaxSessions == 2
\* inbound messages the server sends in one behaviour
MaxMessages == 3
\* chunk payloads delivered to the viewer in one behaviour
MaxArrivals == 4
\* loadSplatScene calls in flight at the same time
MaxLoads == 4
\* calls of processUploadQueue in one behaviour
MaxRuns == 2
\* files of one call
MaxFiles == 2
\* times the viewer's teardown may release one blob URL again
MaxReleases == 2
\* calls of processUploadQueue that are rejected in one behaviour
MaxRejects == 1
\* files of the one call of a run that is followed batch by batch
MaxBatchFiles == 7
\* the values setConcurrentUploads is called with before that run
BatchConcurrencyInputs == {0, 2, 5}
\* the values setConcurrentUploads is called with
ConcurrencyInputs == {0, 2}
\* the upload delays of the session configuration (2000 ms is its default)
UploadDelays == {0, 2000}

\* calls of addLog between two times the log is emptied
MaxLogCalls == 52
\* seconds that pass between the first and the last of these calls
MaxLogSeconds == 2

\* vertices of a buffer passed to writeGaussianPLY
MaxVertices == 2
\* the float32 values an SH coefficient of these vertices takes
PlyFloats == {"+0", "-0", "NaN", "1.5"}
\* the float32 values their other fields take
FieldFloats == {"-0", "NaN"}
\* the header lines a cut payload keeps: none, those before the vertex count,
\* those up to the vertex count, the first twenty
HeaderCuts == {0, 2, 3, 20}
\* the bytes a cut payload keeps after its last whole record
Remainders == {0, 1, 235}

\* chunks passed to mergeChunks
MaxMergeChunks == 2

Channels == 1..MaxChannels
\* chunk identifiers the server assigns
ChunkIds == {1, 2}

(***************************************************************************)
(* Program constants.                                                      *)
(***************************************************************************)
maxReconnectAttempts == 5
InitialReconnectDelay == 1000
MaxReconnectDelay == 30000

VARIABLES
    \* ---- WebSocketService ----
    ws,                   \* this.ws: 0 = null, -1 = a socket that is CLOSED, else a live channel
    chan,                 \* readyState of every live WebSocket object
    prom,                 \* who awaits the unresolved promise of the connect() that made it
    tmo,                  \* the 5 s timer of that connect() is pending and can still resolve
    reconnectAttempts,
    reconnectDelay,
    isIntentionallyClosed,
    reTimers,             \* attemptReconnect() calls waiting in their backoff setTimeout
    \* ---- stores ----
    websocketConnected,
    sessionId,
    isDownloadingChunks,  \* the processing-pressure signal
    chunksInfo,
    splatChunks,          \* records [id, url, ev]; ev = the event that delivered the chunk
    urlRevokes,           \* urlRevokes[u] = times URL.revokeObjectURL ran on blob URL u
    isUploading,
    uploadProgress,       \* [num, den]: the value (num / den) * 100
    uploadedImages,
    \* ---- SessionController ----
    sessCount,            \* sessions created so far
    createPc,             \* createSession: "idle", "gql" (awaits graphql), "conn" (awaits connect)
    isClosingSession,
    \* ---- messages and payload fetches in flight ----
    msgCount,             \* inbound messages handled so far
    fetches,              \* downloadGaussianSplat calls awaiting their fetch: records [ev, id]
    \* ---- GaussianViewer ----
    scene,                \* the gsplat scene exists (library loaded, viewer initialised)
    loadedScenes,
    loadedChunksOrder,
    loads,                \* loadSplatScene calls awaiting their fetch: a bag of [id, url]
    \* ---- ImageUploadService ----
    uploadQueue,
    isProcessing,
    shouldPause,
    concurrentUploads,
    uploadDelay,
    runs,                 \* the processUploadQueue calls: position and locals of each
    \* ---- history (not program state) ----
    waits,                \* backoff waits started since the last successful open
    pristine,             \* no disconnect(), no second connect(), no reconnect that opened
    userDisconnected,     \* disconnect() was called and connect() not called by the user since
    lastDone,             \* the chunk_complete handling that finished last: its event, its
                          \* outcome, and the pressure signal just before it finished
    rejected,             \* calls of processUploadQueue that logged 'Upload already in
                          \* progress' and returned
    \* ---- the statusLogs store ----
    statusLogs,
    logged,               \* history: the entries passed to addLog since the log was last emptied
    \* ---- PLYMerger: the arguments and results of its static functions ----
    plyVertices,          \* the vertices last passed to writeGaussianPLY
    plyBlob,              \* the payload at hand: written by writeGaussianPLY, then possibly cut
    readResult,           \* what readGaussianPLY made of it
    mergeArg,             \* the chunks array being put together for mergeChunks
    mergePassed,          \* history: that array as it was when mergeChunks was called
    mergeResult,          \* what mergeChunks made of it
    \* ---- history (not program state) ----
    unknownSeen,          \* inbound messages of an unrecognized type handled so far
    processingSince       \* the event of the chunk_processing_start handled last, if no
                          \* chunk_complete and no error was received since; else 0

chanVars == <<ws, chan, prom, tmo, reconnectAttempts, reconnectDelay,
              isIntentionallyClosed, reTimers, websocketConnected>>
sessVars == <<sessionId, sessCount, createPc, isClosingSession>>
pressureVars == <<isDownloadingChunks, shouldPause>>
msgVars == <<chunksInfo, msgCount, fetches>>
storeVars == <<splatChunks, urlRevokes>>
viewerVars == <<scene, loadedScenes, loadedChunksOrder, loads>>
uploadStoreVars == <<isUploading, uploadProgress, uploadedImages>>
uploadVars == <<uploadQueue, isProcessing, concurrentUploads, uploadDelay, runs>>
histVars == <<waits, pristine, userDisconnected, lastDone, rejected>>
logVars == <<statusLogs, logged>>
plyVars == <<plyVertices, plyBlob, readResult, mergeArg, mergePassed, mergeResult>>
\* the log, the PLY functions and the count of unrecognized messages, which
\* the other parts of the model leave alone
libVars == <<logVars, plyVars, unknownSeen, processingSince>>

vars == <<chanVars, sessVars, pressureVars, msgVars, storeVars, viewerVars,
          uploadStoreVars, uploadVars, histVars, libVars>>

Min(a, b) == IF a < b THEN a ELSE b

(***************************************************************************)
(* WebSocketService                                                        *)
(***************************************************************************)
\* readyState of the socket this.ws refers to
ReadyState(w) ==
    IF w = 0 THEN "null"
    ELSE IF w = -1 THEN "CLOSED"
    ELSE IF chan[w] = "connecting" THEN "CONNECTING"
    ELSE IF chan[w] = "open" THEN "OPEN"
    ELSE IF chan[w] \in {"closingC", "closingO"} THEN "CLOSING"
    ELSE "CLOSED"

FreeChannels == {c \in Channels : chan[c] = "free"}

\* the slot a new WebSocket takes: the lowest one that holds no live socket
NewChannel == CHOOSE c \in FreeChannels : \A d \in FreeChannels : c <= d

\* a backoff that does not grow
NextDelayConstant(d) == d

\* attemptReconnect, line 90: the wait after a failed reconnect
NextDelay(d) == Min(d * 2, MaxReconnectDelay)

\* the continuation of `await this.connect(...)` in attemptReconnect (lines 87-91),
\* run when the promise of channel c resolves with value v
DelayAfterResolve(c, v) ==
    IF prom[c] = "reconnect" /\ ~v THEN NextDelay(reconnectDelay) ELSE reconnectDelay

\* the continuation of `await websocketService.connect(...)` in createSession
CreatePcAfterResolve(c) ==
    IF prom[c] = "session" THEN "idle" ELSE createPc

\* a guard without the cap on attempts
MayReconnectUncapped(intentional, attempts) == ~intentional

\* attemptReconnect, lines 78-80: the guard
MayReconnect(intentional, attempts) ==
    ~intentional /\ attempts < maxReconnectAttempts

(***************************************************************************)
(* stores: the pressure signal, the chunk store                            *)
(***************************************************************************)
\* the value the isDownloadingChunks store is created with. stores.ts as
\* modelled (src/unnamed/part_003) does not declare the store; its users
\* (websocket.ts, upload.ts, StatusPanel.svelte) treat it as a boolean that
\* is raised only by chunk_processing_start.
InitialDownloadingChunks == FALSE

\* a subscriber that pauses and never resumes
SubscriberNeverResumes(downloading, processing, pause) ==
    (downloading /\ processing) \/ pause

\* the subscriber ImageUploadService's constructor registers on isDownloadingChunks
Subscriber(downloading, processing, pause) ==
    IF downloading /\ processing THEN TRUE
    ELSE IF ~downloading /\ pause THEN FALSE
    ELSE pause

\* isDownloadingChunks.set(v): a writable store calls its subscribers only when
\* the value changes
SetDownloading(v) ==
    /\ isDownloadingChunks' = v
    /\ shouldPause' = IF v = isDownloadingChunks THEN shouldPause
                      ELSE Subscriber(v, isProcessing, shouldPause)

\* addSplatChunk: a new blob URL, the chunk appended to the store
AddSplatChunk(chunks, id, ev) ==
    Append(chunks, [id |-> id, url |-> Len(urlRevokes) + 1, ev |-> ev])

Ids(s) == {s[i].id : i \in DOMAIN s}

RECURSIVE Revoke(_, _)
\* URL.revokeObjectURL on the URL of every chunk of the sequence s
Revoke(rev, s) ==
    IF s = <<>> THEN rev
    ELSE Revoke([rev EXCEPT ![Head(s).url] = @ + 1], Tail(s))

(***************************************************************************)
(* stores: the rolling log                                                 *)
(***************************************************************************)
\* addLog, line 48: the entries logs.slice(-49) keeps
LogSliceLength == 49

\* Array.prototype.slice(-n) for n > 0: the last n elements, all of them if
\* there are fewer
SliceLast(s, n) == IF Len(s) > n THEN SubSeq(s, Len(s) - n + 1, Len(s)) ELSE s

\* a log that is never cut
AddLogKeepsAll(logs, entry) == Append(logs, entry)

\* addLog: statusLogs.update(logs => [...logs.slice(-49), logMessage])
AddLogTo(logs, entry) == Append(SliceLast(logs, LogSliceLength), entry)

\* the second of the newest entry: toLocaleTimeString has a resolution of 1 s
LastSecond(entries) == IF entries = <<>> THEN 0 ELSE entries[Len(entries)]

(***************************************************************************)
(* GaussianViewer                                                          *)
(***************************************************************************)
RECURSIVE StartLoads(_, _)
\* loadSplatScene up to its first await, for every chunk of the sequence s
StartLoads(ld, s) ==
    IF s = <<>> THEN ld
    ELSE StartLoads(ld (+) SetToBag({[id |-> Head(s).id, url |-> Head(s).url]}), Tail(s))

\* processNewChunks: a load is started for every chunk of the store that is not loaded
ProcessNewChunks(chunks, loaded, ld) ==
    IF ~scene THEN ld
    ELSE LET NotLoaded(c) == c.id \notin loaded
         IN StartLoads(ld, SelectSeq(chunks, NotLoaded))

\* the reactive statement `$: if ($splatChunks.length > 0) processNewChunks()`,
\* run in the microtask flush that follows every change of the store
StoreChanged(chunks, loaded, ld) ==
    IF Len(chunks) > 0 THEN ProcessNewChunks(chunks, loaded, ld) ELSE ld

\* the viewer keeps the chunks loaded last
RetentionWindow == 2

\* a cleanup that removes the chunks loaded last instead of those loaded first
ChunksToRemoveNewest(order) ==
    IF Len(order) > RetentionWindow
    THEN {order[i] : i \in (RetentionWindow + 1)..Len(order)}
    ELSE {}

\* loadSplatScene, line 124: loadedChunksOrder.slice(0, -2)
ChunksToRemove(order) ==
    IF Len(order) > RetentionWindow
    THEN {order[i] : i \in 1..(Len(order) - RetentionWindow)}
    ELSE {}

(***************************************************************************)
(* PLYMerger.  A float32 is one of a few bit patterns, named by a string.  *)
(* A payload is its header, line by line with the bytes of every line, its *)
(* binary part as the sequence of its whole 4-byte words, and the bytes    *)
(* (fewer than 4) that a cut leaves after the last whole word.             *)
(***************************************************************************)
\* no payload at hand
NoBlob == [kind |-> "none"]

\* no call made yet
NoResult == [kind |-> "none"]

\* VERTEX_SIZE, line 12
VERTEX_SIZE == 59 * 4
\* SH_COEFFS, line 13
SH_COEFFS == 48
\* line 22: the bytes readGaussianPLY takes the header from
HeaderWindow == 2048

\* `x || 0`: 0 for the falsy numbers +0, -0 and NaN, and for undefined
OrZero(x) == IF x \in {"+0", "-0", "NaN", "undefined"} THEN "+0" ELSE x

\* vertex.sh[j - 1]: undefined past the end of the array
ShAt(v, j) == IF j <= Len(v.sh) THEN v.sh[j] ELSE "undefined"

\* writeGaussianPLY, lines 150-172: the 59 words of one vertex
WordsOf(v) ==
    <<v.position[1], v.position[2], v.position[3],
      v.scale[1], v.scale[2], v.scale[3],
      v.rotation[1], v.rotation[2], v.rotation[3], v.rotation[4],
      v.opacity>> \o [j \in 1..SH_COEFFS |-> OrZero(ShAt(v, j))]

RECURSIVE AllWords(_)
\* writeGaussianPLY, lines 149-175: the binary part
AllWords(vs) == IF vs = <<>> THEN <<>> ELSE WordsOf(Head(vs)) \o AllWords(Tail(vs))

RECURSIVE Digits(_)
\* characters of `${vertexCount}`
Digits(n) == IF n < 10 THEN 1 ELSE 1 + Digits(n \div 10)

\* one line of the header and the bytes it takes, its '\n' included
Line(text, n, bytes) == [text |-> text, n |-> n, bytes |-> bytes]

\* writeGaussianPLY, lines 97-130: the header
HeaderLines(vertexCount) ==
    <<Line("ply", 0, 4),
      Line("format binary_little_endian 1.0", 0, 32),
      Line("element vertex", vertexCount, 16 + Digits(vertexCount)),
      Line("property float x", 0, 17),
      Line("property float y", 0, 17),
      Line("property float z", 0, 17),
      Line("property float scale_", 0, 23),
      Line("property float scale_", 1, 23),
      Line("property float scale_", 2, 23),
      Line("property float rot_", 0, 21),
      Line("property float rot_", 1, 21),
      Line("property float rot_", 2, 21),
      Line("property float rot_", 3, 21),
      Line("property float opacity", 0, 23),
      Line("property float f_dc_", 0, 22),
      Line("property float f_dc_", 1, 22),
      Line("property float f_dc_", 2, 22)>>
    \o [i \in 1..45 |-> Line("property float f_rest_", i - 1, IF i - 1 < 10 THEN 24 ELSE 25)]
    \o <<Line("end_header", 0, 11)>>

RECURSIVE BytesUpTo(_, _)
\* the bytes of the first i lines of a header
BytesUpTo(lines, i) == IF i = 0 THEN 0 ELSE lines[i].bytes + BytesUpTo(lines, i - 1)

\* the bytes of a sequence of header lines
BytesOf(lines) == BytesUpTo(lines, Len(lines))

\* writeGaussianPLY
WriteGaussianPLY(vs) ==
    [kind |-> "blob", header |-> HeaderLines(Len(vs)), data |-> AllWords(vs), tail |-> 0]

\* arrayBuffer.byteLength
ByteLength(b) == BytesOf(b.header) + 4 * Len(b.data) + b.tail

\* the payload cut after its first m header lines
CutToLines(b, m) ==
    [kind |-> "blob", header |-> SubSeq(b.header, 1, m), data |-> <<>>, tail |-> 0]

\* the payload cut to its header and the first n bytes of its binary part
CutToData(b, n) ==
    [kind |-> "blob", header |-> b.header, data |-> SubSeq(b.data, 1, n \div 4),
     tail |-> n % 4]

RECURSIVE ScanHeader(_, _, _, _)
\* readGaussianPLY, lines 25-40: the loop over the lines of the first 2048
\* bytes; i is the line at hand, at is its byte offset
ScanHeader(lines, i, at, vertexCount) ==
    IF i > Len(lines) \/ at + lines[i].bytes > HeaderWindow
    THEN [vertexCount |-> vertexCount, headerEndOffset |-> 0]
    ELSE IF lines[i].text = "element vertex"
    THEN ScanHeader(lines, i + 1, at + lines[i].bytes, lines[i].n)
    ELSE IF lines[i].text = "end_header"
    THEN [vertexCount |-> vertexCount, headerEndOffset |-> at + lines[i].bytes]
    ELSE ScanHeader(lines, i + 1, at + lines[i].bytes, vertexCount)

\* dataView.getFloat32(offset, true): a word of the binary part, or the
\* float that four bytes of the header text (or of two words) make
GetFloat32(b, offset) ==
    LET binary == BytesOf(b.header)
    IN IF offset >= binary /\ (offset - binary) % 4 = 0
       THEN b.data[(offset - binary) \div 4 + 1]
       ELSE "text"

\* readGaussianPLY, lines 56-80: the vertex at a byte offset
VertexAt(b, offset) ==
    [position |-> <<GetFloat32(b, offset), GetFloat32(b, offset + 4), GetFloat32(b, offset + 8)>>,
     scale |-> <<GetFloat32(b, offset + 12), GetFloat32(b, offset + 16),
                 GetFloat32(b, offset + 20)>>,
     rotation |-> <<GetFloat32(b, offset + 24), GetFloat32(b, offset + 28),
                    GetFloat32(b, offset + 32), GetFloat32(b, offset + 36)>>,
     opacity |-> GetFloat32(b, offset + 40),
     sh |-> [j \in 1..SH_COEFFS |-> GetFloat32(b, offset + 44 + ((j - 1) * 4))]]

\* a check that lets a record through of which any byte is there
NothingLeft(offset, byteLength) == offset >= byteLength

\* readGaussianPLY, line 51
Incomplete(offset, byteLength) == offset + VERTEX_SIZE > byteLength

\* the Error of the catch block, line 88
ReadError(cause) == [kind |-> "error", message |-> "Failed to read PLY file", cause |-> cause]

RECURSIVE ReadVertices(_, _, _, _, _)
\* readGaussianPLY, lines 50-86: the loop over the records.  getFloat32
\* throws a RangeError when it is asked for bytes past the end of the buffer.
ReadVertices(b, vertexCount, i, offset, acc) ==
    IF i >= vertexCount THEN [kind |-> "ok", vertices |-> acc]
    ELSE IF Incomplete(offset, ByteLength(b)) THEN [kind |-> "ok", vertices |-> acc]
    ELSE IF offset + VERTEX_SIZE > ByteLength(b) THEN ReadError("RangeError")
    ELSE ReadVertices(b, vertexCount, i + 1, offset + VERTEX_SIZE,
                      Append(acc, VertexAt(b, offset)))

\* readGaussianPLY
ReadGaussianPLY(b) ==
    LET h == ScanHeader(b.header, 1, 0, 0)
    IN IF h.vertexCount = 0
       THEN ReadError("No vertex count found in PLY header")
       ELSE ReadVertices(b, h.vertexCount, 0, h.headerEndOffset, <<>>)

\* chunk identifiers in the order String.prototype.localeCompare puts them:
\* digits before letters, character by character
CollationOrder == <<"10", "a", "b">>

\* a.localeCompare(b): negative, zero or positive
LocaleCompare(a, b) ==
    (CHOOSE k \in DOMAIN CollationOrder : CollationOrder[k] = a)
        - (CHOOSE k \in DOMAIN CollationOrder : CollationOrder[k] = b)

\* the chunk c put into a sorted array behind the chunks that do not compare
\* greater: Array.prototype.sort is stable
InsertChunk(sorted, c) ==
    LET k == Cardinality({j \in DOMAIN sorted : LocaleCompare(sorted[j].id, c.id) <= 0})
    IN SubSeq(sorted, 1, k) \o <<c>> \o SubSeq(sorted, k + 1, Len(sorted))

\* an array left in the order it was passed in
PassedOrder(s) == s

RECURSIVE SortChunks(_)
\* mergeChunks, line 193: chunks.sort((a, b) => a.id.localeCompare(b.id))
SortChunks(s) ==
    IF s = <<>> THEN <<>>
    ELSE InsertChunk(SortChunks(SubSeq(s, 1, Len(s) - 1)), s[Len(s)])

\* the Errors mergeChunks throws itself, lines 185 and 207
MergeError(message) == [kind |-> "error", message |-> message, cause |-> "none"]

\* a check that lets an empty merge through
NeverEmpty(all) == FALSE

\* mergeChunks, line 206
IsEmptyMerge(all) == Len(all) = 0

RECURSIVE MergeLoop(_, _, _)
\* a catch block that goes on with the next chunk
ReadSkipped(sorted, i, all, error) == MergeLoop(sorted, i + 1, all)

\* mergeChunks, lines 200-203: the catch block logs and rethrows
ReadFailed(sorted, i, all, error) == error

\* mergeChunks, lines 195-213: the loop over the sorted chunks and what follows it
MergeLoop(sorted, i, all) ==
    IF i > Len(sorted)
    THEN IF IsEmptyMerge(all)
         THEN MergeError("No gaussians found to merge")
         ELSE [kind |-> "ok", blob |-> WriteGaussianPLY(all)]
    ELSE LET r == ReadGaussianPLY(sorted[i].blob)
         IN IF r.kind = "error"
            THEN ReadFailed(sorted, i, all, r)
            ELSE MergeLoop(sorted, i + 1, all \o r.vertices)

\* mergeChunks
MergeChunks(chunks) ==
    IF Len(chunks) = 0
    THEN MergeError("No chunks to merge")
    ELSE MergeLoop(SortChunks(chunks), 1, <<>>)

(***************************************************************************)
(* Initial state: the page is loaded, nothing has been requested yet.      *)
(***************************************************************************)
Init ==
    /\ ws = 0
    /\ chan = [c \in Channels |-> "free"]
    /\ prom = [c \in Channels |-> "none"]
    /\ tmo = [c \in Channels |-> FALSE]
    /\ reconnectAttempts = 0
    /\ reconnectDelay = InitialReconnectDelay
    /\ isIntentionallyClosed = FALSE
    /\ reTimers = 0
    /\ websocketConnected = FALSE
    /\ sessionId = 0
    /\ isDownloadingChunks = InitialDownloadingChunks
    /\ chunksInfo = <<>>
    /\ splatChunks = <<>>
    /\ urlRevokes = <<>>
    /\ isUploading = FALSE
    /\ uploadProgress = [num |-> 0, den |-> 1]
    /\ uploadedImages = <<>>
    /\ sessCount = 0
    /\ createPc = "idle"
    /\ isClosingSession = FALSE
    /\ msgCount = 0
    /\ fetches = {}
    /\ scene = FALSE
    /\ loadedScenes = {}
    /\ loadedChunksOrder = <<>>
    /\ loads = EmptyBag
    /\ uploadQueue = <<>>
    /\ isProcessing = FALSE
    /\ shouldPause = FALSE
    /\ concurrentUploads = 3
    /\ uploadDelay = 0
    /\ runs = <<>>
    /\ waits = <<>>
    /\ pristine = TRUE
    /\ userDisconnected = FALSE
    /\ lastDone = [ev |-> 0, out |-> "none", was |-> FALSE]
    /\ rejected = 0
    /\ statusLogs = <<>>
    /\ logged = <<>>
    /\ plyVertices = <<>>
    /\ plyBlob = NoBlob
    /\ readResult = NoResult
    /\ mergeArg = <<>>
    /\ mergePassed = <<>>
    /\ mergeResult = NoResult
    /\ unknownSeen = 0
    /\ processingSince = 0

(***************************************************************************)
(* WebSocketService.connect, up to the promise it returns: a new WebSocket *)
(* replaces this.ws (the socket it replaces is not closed) and the 5 s     *)
(* timer is set.  `by` is the caller that awaits the promise.              *)
(***************************************************************************)
Connect(by) ==
    /\ FreeChannels # {}
    /\ LET c == NewChannel
       IN /\ chan' = [chan EXCEPT ![c] = "connecting"]
          /\ prom' = [prom EXCEPT ![c] = by]
          /\ tmo' = [tmo EXCEPT ![c] = TRUE]
          /\ ws' = c
    /\ isIntentionallyClosed' = FALSE

\* ws.onopen
OnOpen(c) ==
    /\ chan[c] = "connecting"
    /\ chan' = [chan EXCEPT ![c] = "open"]
    /\ websocketConnected' = TRUE
    /\ reconnectAttempts' = 0
    \* resolve(true), and the continuation of whoever awaits it
    /\ prom' = [prom EXCEPT ![c] = "none"]
    /\ tmo' = [tmo EXCEPT ![c] = FALSE]
    /\ reconnectDelay' = DelayAfterResolve(c, TRUE)
    /\ createPc' = CreatePcAfterResolve(c)
    /\ waits' = <<>>
    /\ pristine' = (pristine /\ waits = <<>>)
    /\ UNCHANGED <<ws, isIntentionallyClosed, reTimers, sessionId, sessCount,
                   isClosingSession, pressureVars, msgVars, storeVars, viewerVars,
                   uploadStoreVars, uploadVars, userDisconnected, lastDone, rejected, libVars>>

\* the 5 s timer of connect(): it reads the readyState of this.ws, whichever
\* socket that is by now
ConnectTimeout(c) ==
    /\ tmo[c]
    /\ tmo' = [tmo EXCEPT ![c] = FALSE]
    /\ IF ReadyState(ws) # "OPEN"
       THEN /\ prom' = [prom EXCEPT ![c] = "none"]
            /\ reconnectDelay' = DelayAfterResolve(c, FALSE)
            /\ createPc' = CreatePcAfterResolve(c)
       ELSE UNCHANGED <<prom, reconnectDelay, createPc>>
    /\ UNCHANGED <<ws, chan, reconnectAttempts, isIntentionallyClosed, reTimers,
                   websocketConnected, sessionId, sessCount, isClosingSession,
                   pressureVars, msgVars, storeVars, viewerVars, uploadStoreVars,
                   uploadVars, histVars, libVars>>

\* ws.onclose, with attemptReconnect up to its backoff wait; d is the value
\* of reconnectDelay when the handler runs
OnClose(c, d) ==
    /\ chan' = [chan EXCEPT ![c] = "free"]
    /\ ws' = IF ws = c THEN -1 ELSE ws
    /\ websocketConnected' = FALSE
    /\ IF MayReconnect(isIntentionallyClosed, reconnectAttempts)
       THEN /\ reconnectAttempts' = reconnectAttempts + 1
            /\ reTimers' = reTimers + 1
            /\ waits' = Append(waits, d)
       ELSE UNCHANGED <<reconnectAttempts, reTimers, waits>>

\* A socket that never opened is closed: the browser fires error, then close,
\* in one task; the continuations released by resolve(false) in onerror run
\* before onclose does.
ChannelFail(c) ==
    /\ chan[c] \in {"connecting", "closingC"}
    \* ws.onerror
    /\ prom' = [prom EXCEPT ![c] = "none"]
    /\ tmo' = [tmo EXCEPT ![c] = FALSE]
    /\ reconnectDelay' = DelayAfterResolve(c, FALSE)
    /\ createPc' = CreatePcAfterResolve(c)
    /\ OnClose(c, DelayAfterResolve(c, FALSE))
    /\ UNCHANGED <<isIntentionallyClosed, sessionId, sessCount, isClosingSession,
                   pressureVars, msgVars, storeVars, viewerVars, uploadStoreVars,
                   uploadVars, pristine, userDisconnected, lastDone, rejected, libVars>>

\* A socket that was open is closed, by the server, by the network or after
\* ws.close(): its connect() promise was resolved when it opened.
ChannelClose(c) ==
    /\ chan[c] \in {"open", "closingO"}
    /\ OnClose(c, reconnectDelay)
    /\ UNCHANGED <<prom, tmo, reconnectDelay, createPc, isIntentionallyClosed,
                   sessionId, sessCount, isClosingSession, pressureVars, msgVars,
                   storeVars, viewerVars, uploadStoreVars, uploadVars, pristine,
                   userDisconnected, lastDone, rejected, libVars>>

\* attemptReconnect after its backoff wait: it calls connect() unconditionally
ReconnectTimer ==
    /\ reTimers > 0
    /\ reTimers' = reTimers - 1
    /\ Connect("reconnect")
    /\ UNCHANGED <<reconnectAttempts, reconnectDelay, websocketConnected, sessVars,
                   pressureVars, msgVars, storeVars, viewerVars, uploadStoreVars,
                   uploadVars, histVars, libVars>>

\* WebSocketService.disconnect
Disconnect ==
    /\ isIntentionallyClosed' = TRUE
    /\ chan' = IF ReadyState(ws) = "CONNECTING" THEN [chan EXCEPT ![ws] = "closingC"]
               ELSE IF ReadyState(ws) = "OPEN" THEN [chan EXCEPT ![ws] = "closingO"]
               ELSE chan
    /\ ws' = 0
    /\ websocketConnected' = FALSE

(***************************************************************************)
(* SessionController                                                       *)
(***************************************************************************)
\* createSession up to `await graphqlClient.createSession`; the button is
\* shown while no session id is set
CreateSessionStart ==
    /\ sessionId = 0
    /\ createPc = "idle"
    /\ sessCount < MaxSessions
    /\ createPc' = "gql"
    /\ UNCHANGED <<chanVars, sessionId, sessCount, isClosingSession, pressureVars,
                   msgVars, storeVars, viewerVars, uploadStoreVars, uploadVars, histVars, libVars>>

\* the graphql request fails: the catch and finally blocks
CreateSessionFail ==
    /\ createPc = "gql"
    /\ createPc' = "idle"
    /\ UNCHANGED <<chanVars, sessionId, sessCount, isClosingSession, pressureVars,
                   msgVars, storeVars, viewerVars, uploadStoreVars, uploadVars, histVars, libVars>>

\* the graphql request succeeds: the session id is stored and connect() called
CreateSessionOk ==
    /\ createPc = "gql"
    /\ sessCount' = sessCount + 1
    /\ sessionId' = sessCount + 1
    /\ createPc' = "conn"
    /\ Connect("session")
    /\ pristine' = (pristine /\ sessCount = 0)
    /\ userDisconnected' = FALSE
    /\ UNCHANGED <<reconnectAttempts, reconnectDelay, reTimers, websocketConnected,
                   isClosingSession, pressureVars, msgVars, storeVars, viewerVars,
                   uploadStoreVars, uploadVars, waits, lastDone, rejected, libVars>>

\* closeSession up to `await graphqlClient.closeSession`
CloseSessionStart ==
    /\ sessionId # 0
    /\ ~isClosingSession
    /\ isClosingSession' = TRUE
    /\ Disconnect
    /\ pristine' = FALSE
    /\ userDisconnected' = TRUE
    /\ UNCHANGED <<prom, tmo, reconnectAttempts, reconnectDelay, reTimers, sessionId,
                   sessCount, createPc, pressureVars, msgVars, storeVars, viewerVars,
                   uploadStoreVars, uploadVars, waits, lastDone, rejected, libVars>>

\* resetStores
ResetStores ==
    /\ sessionId' = 0
    /\ uploadedImages' = <<>>
    /\ isUploading' = FALSE
    /\ uploadProgress' = [num |-> 0, den |-> 1]
    /\ chunksInfo' = <<>>
    /\ websocketConnected' = FALSE
    \* clearSplatChunks
    /\ urlRevokes' = Revoke(urlRevokes, splatChunks)
    /\ splatChunks' = <<>>
    /\ loads' = StoreChanged(<<>>, loadedScenes, loads)

\* closeSession after the graphql request, whatever its outcome
CloseSessionDone ==
    /\ isClosingSession
    /\ ResetStores
    /\ isClosingSession' = FALSE
    /\ UNCHANGED <<ws, chan, prom, tmo, reconnectAttempts, reconnectDelay,
                   isIntentionallyClosed, reTimers, sessCount, createPc, pressureVars,
                   msgCount, fetches, scene, loadedScenes, loadedChunksOrder,
                   uploadVars, histVars, libVars>>

(***************************************************************************)
(* Inbound messages.  ws.onmessage calls handleMessage without awaiting    *)
(* it, and the browser delivers a message only while the socket is OPEN.   *)
(* A delivery action is the handler up to its first await.                 *)
(***************************************************************************)
Receiving(c) == chan[c] = "open" /\ msgCount < MaxMessages

\* handleChunkComplete, lines 166-182: chunksInfo.update
UpdateChunksInfo(chunks, new) ==
    IF \E k \in DOMAIN chunks : chunks[k].chunkId = new.chunkId
    THEN LET existingIndex == CHOOSE k \in DOMAIN chunks :
                 /\ chunks[k].chunkId = new.chunkId
                 /\ \A j \in DOMAIN chunks : chunks[j].chunkId = new.chunkId => k <= j
         IN [chunks EXCEPT ![existingIndex] = new]
    ELSE Append(chunks, new)

\* case 'chunk_processing_start'
MsgProcessingStart(c) ==
    /\ Receiving(c)
    /\ msgCount' = msgCount + 1
    /\ SetDownloading(TRUE)
    /\ processingSince' = msgCount + 1
    /\ UNCHANGED <<chanVars, sessVars, chunksInfo, fetches, storeVars, viewerVars,
                   uploadStoreVars, uploadVars, histVars, logVars, plyVars, unknownSeen>>

\* case 'error'
MsgError(c) ==
    /\ Receiving(c)
    /\ msgCount' = msgCount + 1
    /\ SetDownloading(FALSE)
    /\ processingSince' = 0
    /\ UNCHANGED <<chanVars, sessVars, chunksInfo, fetches, storeVars, viewerVars,
                   uploadStoreVars, uploadVars, histVars, logVars, plyVars, unknownSeen>>

\* the cases that only log ('connected', 'image_added', 'global_alignment_updated',
\* 'loop_detected'), and a message that fails to parse
MsgLogOnly(c) ==
    /\ Receiving(c)
    /\ msgCount' = msgCount + 1
    /\ UNCHANGED <<chanVars, sessVars, pressureVars, chunksInfo, fetches, storeVars,
                   viewerVars, uploadStoreVars, uploadVars, histVars, libVars>>

\* message types the switch of handleMessage has no case for
UnknownTypes == {"ping", "chunk_failed"}

\* a default case that clears the pressure signal, as the 'error' case does
SignalClearedByDefault(type, downloading) ==
    IF type = "chunk_processing_start" THEN TRUE ELSE FALSE

\* the switch of handleMessage, as far as the pressure signal goes: what the
\* cases that return without awaiting leave it at
SignalAfterMessage(type, downloading) ==
    CASE type = "chunk_processing_start" -> TRUE
      [] type = "error" -> FALSE
      [] OTHER -> downloading

\* the default case: a message of an unrecognized type
MsgUnknown(c, type) ==
    /\ Receiving(c)
    /\ msgCount' = msgCount + 1
    /\ SetDownloading(SignalAfterMessage(type, isDownloadingChunks))
    /\ unknownSeen' = unknownSeen + 1
    /\ UNCHANGED <<chanVars, sessVars, chunksInfo, fetches, storeVars, viewerVars,
                   uploadStoreVars, uploadVars, histVars, logVars, plyVars, processingSince>>

\* case 'chunk_complete' with a download URL: handleChunkComplete and
\* downloadGaussianSplat up to `await fetch`
MsgChunkCompleteUrl(c, id, aligned) ==
    /\ Receiving(c)
    /\ msgCount' = msgCount + 1
    /\ chunksInfo' = UpdateChunksInfo(chunksInfo, [chunkId |-> id, isAligned |-> aligned])
    /\ fetches' = fetches \cup {[ev |-> msgCount + 1, id |-> id]}
    /\ processingSince' = 0
    /\ UNCHANGED <<chanVars, sessVars, pressureVars, storeVars, viewerVars,
                   uploadStoreVars, uploadVars, histVars, logVars, plyVars, unknownSeen>>

\* case 'chunk_complete' without a download URL (absent or empty)
MsgChunkCompleteNoUrl(c, id, aligned) ==
    /\ Receiving(c)
    /\ msgCount' = msgCount + 1
    /\ chunksInfo' = UpdateChunksInfo(chunksInfo, [chunkId |-> id, isAligned |-> aligned])
    /\ SetDownloading(FALSE)
    /\ lastDone' = [ev |-> msgCount + 1, out |-> "nourl", was |-> isDownloadingChunks]
    /\ processingSince' = 0
    /\ UNCHANGED <<chanVars, sessVars, fetches, storeVars, viewerVars,
                   uploadStoreVars, uploadVars, waits, pristine, userDisconnected,
                   rejected, logVars, plyVars, unknownSeen>>

\* a downloadGaussianSplat without its finally block
SignalLeftAsItIs == isDownloadingChunks

\* what the finally block of downloadGaussianSplat sets the signal to
SignalAfterDownload == FALSE

\* downloadGaussianSplat after its awaits, the response being ok: the blob is
\* added to the store; then the finally block
FetchOk(f) ==
    /\ f \in fetches
    /\ fetches' = fetches \ {f}
    /\ splatChunks' = AddSplatChunk(splatChunks, f.id, f.ev)
    /\ urlRevokes' = Append(urlRevokes, 0)
    /\ loads' = StoreChanged(splatChunks', loadedScenes, loads)
    /\ SetDownloading(SignalAfterDownload)
    /\ lastDone' = [ev |-> f.ev, out |-> "ok", was |-> isDownloadingChunks]
    /\ UNCHANGED <<chanVars, sessVars, chunksInfo, msgCount, scene, loadedScenes,
                   loadedChunksOrder, uploadStoreVars, uploadVars, waits, pristine,
                   userDisconnected, rejected, libVars>>

\* the fetch rejects or the response is not ok: the catch and finally blocks of
\* downloadGaussianSplat, then the catch block of handleChunkComplete
FetchFail(f) ==
    /\ f \in fetches
    /\ fetches' = fetches \ {f}
    /\ SetDownloading(FALSE)
    /\ lastDone' = [ev |-> f.ev, out |-> "fail", was |-> isDownloadingChunks]
    /\ UNCHANGED <<chanVars, sessVars, chunksInfo, msgCount, storeVars, viewerVars,
                   uploadStoreVars, uploadVars, waits, pristine, userDisconnected,
                   rejected, libVars>>

(***************************************************************************)
(* The push channel and its session: connection, closure, reconnection.    *)
(* The server sends no message, the viewer has no scene yet, no upload     *)
(* runs.                                                                   *)
(***************************************************************************)
NextChannel ==
    \/ CreateSessionStart
    \/ CreateSessionFail
    \/ CreateSessionOk
    \/ CloseSessionStart
    \/ CloseSessionDone
    \/ ReconnectTimer
    \/ \E c \in Channels : OnOpen(c)
    \/ \E c \in Channels : ConnectTimeout(c)
    \/ \E c \in Channels : ChannelFail(c)
    \/ \E c \in Channels : ChannelClose(c)

SpecChannel == Init /\ [][NextChannel]_vars

(***************************************************************************)
(* The messages of a session and their payload fetches.  The network is    *)
(* reliable here: a socket opens before its 5 s timer fires, and is closed *)
(* by ws.close() only.                                                     *)
(***************************************************************************)
NextMessages ==
    \/ CreateSessionStart
    \/ CreateSessionOk
    \/ CloseSessionStart
    \/ CloseSessionDone
    \/ ReconnectTimer
    \/ \E c \in Channels : OnOpen(c)
    \/ \E c \in Channels : chan[c] = "closingC" /\ ChannelFail(c)
    \/ \E c \in Channels : chan[c] = "closingO" /\ ChannelClose(c)
    \/ \E c \in Channels : MsgProcessingStart(c)
    \/ \E c \in Channels : MsgError(c)
    \/ \E c \in Channels : MsgLogOnly(c)
    \/ \E c \in Channels, type \in UnknownTypes : MsgUnknown(c, type)
    \/ \E c \in Channels, id \in ChunkIds, al \in BOOLEAN : MsgChunkCompleteUrl(c, id, al)
    \/ \E c \in Channels, id \in ChunkIds, al \in BOOLEAN : MsgChunkCompleteNoUrl(c, id, al)
    \/ \E f \in fetches : FetchOk(f)
    \/ \E f \in fetches : FetchFail(f)

SpecMessages == Init /\ [][NextMessages]_vars

(***************************************************************************)
(* ImageUploadService.  A run is one call of processUploadQueue; its locals *)
(* are i and uploadedCount, its position pc is "batch" (awaits              *)
(* Promise.all), "paused" (in the 500 ms poll), "delay" (in the wait        *)
(* between batches) or "done".  A file is <<run, position in the list>>.    *)
(***************************************************************************)
Range(s) == {s[k] : k \in DOMAIN s}

\* a batch that stops one file short
BatchOneShort(q, i, c) == SubSeq(q, i + 1, Min(i + c, Len(q)) - 1)

\* uploadQueue.slice(i, i + concurrentUploads)
Batch(q, i, c) == SubSeq(q, i + 1, Min(i + c, Len(q)))

\* the log line after the loop, and the run's end (the finally block's effect
\* on the service is part of the action that ends the run)
Finish(rec, q) ==
    [rec EXCEPT !.pc = "done", !.report = <<rec.uploadedCount, Len(q)>>]

\* lines 98-115: the batch is cut and one upload request issued per file
IssueBatch(rec, q, i) ==
    LET batch == Batch(q, i, concurrentUploads)
    IN [rec EXCEPT !.pc = "batch", !.i = i, !.pending = @ \cup Range(batch),
                   !.issued = @ \o batch]

\* a loop that goes on as soon as one upload of the batch has resolved
FirstResolved(rec) == TRUE

\* line 115, `await Promise.all(batchPromises)`: the loop goes on when no
\* upload of the batch is in flight any more
BatchResolved(rec) == rec.pending = {}

\* lines 86-96: the loop condition, then the pause check
LoopTop(rec, q, i, processing, pause) ==
    IF i < Len(q)
    THEN IF pause
         THEN IF processing
              THEN [rec EXCEPT !.pc = "paused", !.i = i]
              ELSE Finish(rec, q)
         ELSE IssueBatch(rec, q, i)
    ELSE Finish(rec, q)

\* lines 117-121 and the loop increment, once Promise.all has resolved
AfterBatch(rec, q, processing, pause) ==
    IF uploadDelay > 0 /\ rec.i + concurrentUploads < Len(q)
    THEN [rec EXCEPT !.pc = "delay"]
    ELSE LoopTop(rec, q, rec.i + concurrentUploads, processing, pause)

\* the run r continues as rec; if that ends it, the finally block runs
RunContinues(r, rec) ==
    /\ runs' = [runs EXCEPT ![r] = rec]
    /\ IF rec.pc = "done"
       THEN /\ isProcessing' = FALSE
            /\ isUploading' = FALSE
            /\ uploadQueue' = <<>>
       ELSE UNCHANGED <<isProcessing, isUploading, uploadQueue>>

\* setConcurrentUploads
Clamp(count) == IF count < 1 THEN 1 ELSE IF count > 5 THEN 5 ELSE count

SetConcurrentUploads(count) ==
    /\ concurrentUploads' = Clamp(count)
    /\ concurrentUploads' # concurrentUploads
    /\ UNCHANGED <<chanVars, sessVars, pressureVars, msgVars, storeVars, viewerVars,
                   uploadStoreVars, uploadQueue, isProcessing, uploadDelay, runs,
                   histVars, libVars>>

\* a scheduler that accepts every call
MayEnqueueAlways(processing) == TRUE

\* processUploadQueue, lines 72-75: the single-flight guard
MayEnqueue(processing) == ~processing

\* startUpload of the uploader component: setUploadDelay, then processUploadQueue
\* with n files, up to its first await
StartRun(n, delay) ==
    /\ sessionId # 0
    /\ MayEnqueue(isProcessing)
    /\ Len(runs) < MaxRuns
    /\ uploadDelay' = delay
    /\ LET r == Len(runs) + 1
           q == [k \in 1..n |-> <<r, k>>]
           rec == LoopTop([files |-> q, pc |-> "new", i |-> 0, uploadedCount |-> 0,
                           pending |-> {}, issued |-> <<>>, cancelled |-> FALSE,
                           atCancel |-> {}, report |-> <<>>],
                          q, 0, TRUE, shouldPause)
       IN /\ runs' = Append(runs, rec)
          /\ uploadQueue' = q
          /\ isProcessing' = TRUE
          /\ isUploading' = TRUE
    /\ uploadProgress' = [num |-> 0, den |-> 1]
    /\ UNCHANGED <<chanVars, sessVars, pressureVars, msgVars, storeVars, viewerVars,
                   uploadedImages, concurrentUploads, histVars, libVars>>

\* startUpload while a run is in progress: setUploadDelay, then a call of
\* processUploadQueue that logs 'Upload already in progress' and returns. The
\* component shows its upload button while the isUploading store is false.
EnqueueRejected(delay) ==
    /\ sessionId # 0
    /\ ~isUploading
    /\ ~MayEnqueue(isProcessing)
    /\ rejected < MaxRejects
    /\ uploadDelay' = delay
    /\ rejected' = rejected + 1
    /\ UNCHANGED <<chanVars, sessVars, pressureVars, msgVars, storeVars, viewerVars,
                   uploadStoreVars, uploadQueue, isProcessing, concurrentUploads, runs,
                   waits, pristine, userDisconnected, lastDone, libVars>>

\* the 500 ms poll of a paused run wakes up and leaves the while loop
PollWake(r) ==
    /\ runs[r].pc = "paused"
    /\ ~(shouldPause /\ isProcessing)
    /\ RunContinues(r, IF ~isProcessing THEN Finish(runs[r], uploadQueue)
                       ELSE LET rec == IssueBatch(runs[r], uploadQueue, runs[r].i)
                            IN IF rec.pending = {}
                               THEN AfterBatch(rec, uploadQueue, isProcessing, shouldPause)
                               ELSE rec)
    /\ UNCHANGED <<chanVars, sessVars, pressureVars, msgVars, storeVars, viewerVars,
                   uploadProgress, uploadedImages, concurrentUploads, uploadDelay,
                   histVars, libVars>>

\* an upload request of run r succeeds: uploadImage after its awaits, then the
\* batch callback; the loop goes on if it was the last of its batch
UploadOk(r, file) ==
    /\ runs[r].pc = "batch"
    /\ file \in runs[r].pending
    /\ uploadedImages' = Append(uploadedImages, file)
    /\ uploadProgress' = [num |-> runs[r].uploadedCount + 1, den |-> Len(uploadQueue)]
    /\ LET rec == [runs[r] EXCEPT !.pending = @ \ {file}, !.uploadedCount = @ + 1]
       IN RunContinues(r, IF BatchResolved(rec)
                          THEN AfterBatch(rec, uploadQueue, isProcessing, shouldPause)
                          ELSE rec)
    /\ UNCHANGED <<chanVars, sessVars, pressureVars, msgVars, storeVars, viewerVars,
                   concurrentUploads, uploadDelay, histVars, libVars>>

\* a batch callback that lets the error of a failed upload end the run
RethrowUploadError(rec) ==
    [rec EXCEPT !.pc = "done", !.report = <<rec.uploadedCount, Len(rec.issued)>>]

\* lines 108-111, the catch block of the batch callback: the failure is
\* logged and the callback's promise resolves
CatchUploadError(rec) == rec

\* an upload request of run r fails (response not ok, or the fetch rejects)
UploadFail(r, file) ==
    /\ runs[r].pc = "batch"
    /\ file \in runs[r].pending
    /\ LET rec == CatchUploadError([runs[r] EXCEPT !.pending = @ \ {file}])
       IN RunContinues(r, IF rec.pc = "batch" /\ BatchResolved(rec)
                          THEN AfterBatch(rec, uploadQueue, isProcessing, shouldPause)
                          ELSE rec)
    /\ UNCHANGED <<chanVars, sessVars, pressureVars, msgVars, storeVars, viewerVars,
                   uploadProgress, uploadedImages, concurrentUploads, uploadDelay,
                   histVars, libVars>>

\* the wait between two batches ends
DelayWake(r) ==
    /\ runs[r].pc = "delay"
    /\ RunContinues(r, LoopTop(runs[r], uploadQueue, runs[r].i + concurrentUploads,
                               isProcessing, shouldPause))
    /\ UNCHANGED <<chanVars, sessVars, pressureVars, msgVars, storeVars, viewerVars,
                   uploadProgress, uploadedImages, concurrentUploads, uploadDelay,
                   histVars, libVars>>

\* a cancelUpload that leaves the pause flag as it is
CancelUploadKeepsPause ==
    /\ isProcessing
    /\ uploadQueue' = <<>>
    /\ isProcessing' = FALSE
    /\ isUploading' = FALSE
    /\ uploadProgress' = [num |-> 0, den |-> 1]
    /\ runs' = [r \in DOMAIN runs |->
                  IF runs[r].pc # "done" /\ ~runs[r].cancelled
                  THEN [runs[r] EXCEPT !.cancelled = TRUE, !.atCancel = runs[r].pending]
                  ELSE runs[r]]
    /\ UNCHANGED <<chanVars, sessVars, pressureVars, msgVars, storeVars,
                   viewerVars, uploadedImages, concurrentUploads, uploadDelay, histVars, libVars>>

\* cancelUpload, while a run is in progress
CancelUpload ==
    /\ isProcessing
    /\ uploadQueue' = <<>>
    /\ isProcessing' = FALSE
    /\ shouldPause' = FALSE
    /\ isUploading' = FALSE
    /\ uploadProgress' = [num |-> 0, den |-> 1]
    /\ runs' = [r \in DOMAIN runs |->
                  IF runs[r].pc # "done" /\ ~runs[r].cancelled
                  THEN [runs[r] EXCEPT !.cancelled = TRUE, !.atCancel = runs[r].pending]
                  ELSE runs[r]]
    /\ UNCHANGED <<chanVars, sessVars, isDownloadingChunks, msgVars, storeVars,
                   viewerVars, uploadedImages, concurrentUploads, uploadDelay, histVars, libVars>>

(***************************************************************************)
(* The upload scheduler in a session whose channel raises and clears the   *)
(* pressure signal.                                                        *)
(***************************************************************************)
NextUpload ==
    \/ CreateSessionStart
    \/ CreateSessionOk
    \/ \E c \in Channels : OnOpen(c)
    \/ \E c \in Channels : MsgProcessingStart(c)
    \/ \E c \in Channels : MsgError(c)
    \/ \E n \in 1..MaxFiles, d \in UploadDelays : StartRun(n, d)
    \/ \E count \in ConcurrencyInputs : SetConcurrentUploads(count)
    \/ \E r \in DOMAIN runs : PollWake(r)
    \/ \E r \in DOMAIN runs : \E file \in runs[r].pending : UploadOk(r, file)
    \/ \E r \in DOMAIN runs : \E file \in runs[r].pending : UploadFail(r, file)
    \/ \E r \in DOMAIN runs : DelayWake(r)
    \/ CancelUpload

SpecUpload == Init /\ [][NextUpload]_vars

(***************************************************************************)
(* The same with a concurrency that is set before the first run, and with  *)
(* fairness: timers fire and every upload request is answered or fails in  *)
(* the end, so a poll or a delay that can wake up does, and a request in   *)
(* flight resolves.                                                        *)
(***************************************************************************)
NextPause ==
    \/ CreateSessionStart
    \/ CreateSessionOk
    \/ \E c \in Channels : OnOpen(c)
    \/ \E c \in Channels : MsgProcessingStart(c)
    \/ \E c \in Channels : MsgError(c)
    \/ runs = <<>> /\ \E count \in ConcurrencyInputs : SetConcurrentUploads(count)
    \/ \E n \in 1..MaxFiles, d \in UploadDelays : StartRun(n, d)
    \/ \E r \in DOMAIN runs : PollWake(r)
    \/ \E r \in DOMAIN runs : \E file \in runs[r].pending : UploadOk(r, file)
    \/ \E r \in DOMAIN runs : \E file \in runs[r].pending : UploadFail(r, file)
    \/ \E r \in DOMAIN runs : DelayWake(r)
    \/ CancelUpload

FairUpload ==
    \A r \in 1..MaxRuns :
        /\ WF_vars(r \in DOMAIN runs /\ PollWake(r))
        /\ WF_vars(r \in DOMAIN runs /\ DelayWake(r))
        /\ WF_vars(r \in DOMAIN runs /\ \E file \in runs[r].pending :
                                            UploadOk(r, file) \/ UploadFail(r, file))

SpecPause == Init /\ [][NextPause]_vars /\ FairUpload

(***************************************************************************)
(* The upload scheduler over sessions that are created and closed: a       *)
(* session close resets the isUploading store while a run is in progress.  *)
(***************************************************************************)
NextEnqueue ==
    \/ CreateSessionStart
    \/ CreateSessionOk
    \/ CloseSessionStart
    \/ CloseSessionDone
    \/ \E c \in Channels : OnOpen(c)
    \/ \E c \in Channels : ChannelClose(c)
    \/ \E n \in 1..MaxFiles, d \in UploadDelays : StartRun(n, d)
    \/ \E d \in UploadDelays : EnqueueRejected(d)
    \/ \E r \in DOMAIN runs : \E file \in runs[r].pending : UploadOk(r, file)
    \/ \E r \in DOMAIN runs : \E file \in runs[r].pending : UploadFail(r, file)
    \/ CancelUpload

SpecEnqueue == Init /\ [][NextEnqueue]_vars

(***************************************************************************)
(* One upload run that is not cancelled, with a concurrency that is set    *)
(* before the run starts, in a session whose channel raises and clears     *)
(* the pressure signal.                                                    *)
(***************************************************************************)
NextBatches ==
    \/ CreateSessionStart
    \/ CreateSessionOk
    \/ \E c \in Channels : OnOpen(c)
    \/ \E c \in Channels : MsgProcessingStart(c)
    \/ \E c \in Channels : MsgError(c)
    \/ \E r \in DOMAIN runs : PollWake(r)
    \/ runs = <<>> /\ \E count \in BatchConcurrencyInputs : SetConcurrentUploads(count)
    \/ runs = <<>> /\ \E n \in 1..MaxBatchFiles, d \in UploadDelays : StartRun(n, d)
    \/ \E r \in DOMAIN runs : \E file \in runs[r].pending : UploadOk(r, file)
    \/ \E r \in DOMAIN runs : \E file \in runs[r].pending : UploadFail(r, file)
    \/ \E r \in DOMAIN runs : DelayWake(r)

SpecBatches == Init /\ [][NextBatches]_vars

(***************************************************************************)
(* GaussianViewer with the chunk store.  A chunk payload is delivered by   *)
(* addSplatChunk, as downloadGaussianSplat calls it once a fetch succeeded. *)
(***************************************************************************)
\* the chunk ids the client knows of
KnownIds ==
    Ids(splatChunks) \cup loadedScenes \cup Range(loadedChunksOrder)
        \cup {l.id : l \in BagToSet(loads)}

\* onMount: the gsplat library is loaded and initViewer has made the scene
ViewerMount ==
    /\ ~scene
    /\ scene' = TRUE
    /\ UNCHANGED <<chanVars, sessVars, pressureVars, msgVars, storeVars, loadedScenes,
                   loadedChunksOrder, loads, uploadStoreVars, uploadVars, histVars, libVars>>

\* addSplatChunk(id, blob), then the viewer's reaction to the changed store;
\* the id is one the client knows already or a new one
ChunkDelivered(id) ==
    /\ Len(urlRevokes) < MaxArrivals
    /\ splatChunks' = AddSplatChunk(splatChunks, id, Len(urlRevokes) + 1)
    /\ urlRevokes' = Append(urlRevokes, 0)
    /\ loads' = StoreChanged(splatChunks', loadedScenes, loads)
    /\ BagCardinality(loads') <= MaxLoads
    /\ UNCHANGED <<chanVars, sessVars, pressureVars, msgVars, scene, loadedScenes,
                   loadedChunksOrder, uploadStoreVars, uploadVars, histVars, libVars>>

\* loadSplatScene after its awaits, the PLY being loaded into the scene:
\* lines 111-143, with the cleanup of all chunks but the two loaded last
LoadOk(l) ==
    /\ l \in BagToSet(loads)
    /\ loadedScenes' = loadedScenes \cup {l.id}
    /\ loadedChunksOrder' = Append(loadedChunksOrder, l.id)
    /\ LET rest == loads (-) SetToBag({l})
           chunksToRemove == ChunksToRemove(loadedChunksOrder')
           ShouldRemove(c) == c.id \in chunksToRemove
           Kept(c) == ~ShouldRemove(c)
       IN IF Len(loadedChunksOrder') > RetentionWindow
          THEN /\ splatChunks' = SelectSeq(splatChunks, Kept)
               /\ urlRevokes' = Revoke(urlRevokes, SelectSeq(splatChunks, ShouldRemove))
               /\ loads' = StoreChanged(splatChunks', loadedScenes', rest)
          ELSE /\ loads' = rest
               /\ UNCHANGED storeVars
    /\ BagCardinality(loads') <= MaxLoads
    /\ UNCHANGED <<chanVars, sessVars, pressureVars, msgVars, scene, uploadStoreVars,
                   uploadVars, histVars, libVars>>

\* loadSplatScene after its awaits, the fetch or the PLY loader throwing: the
\* catch block
LoadFail(l) ==
    /\ l \in BagToSet(loads)
    /\ loads' = loads (-) SetToBag({l})
    /\ UNCHANGED <<chanVars, sessVars, pressureVars, msgVars, storeVars, scene,
                   loadedScenes, loadedChunksOrder, uploadStoreVars, uploadVars,
                   histVars, libVars>>

\* clearScenes; its button is enabled while a chunk is loaded
ClearScenes ==
    /\ scene
    /\ loadedScenes # {}
    /\ loadedScenes' = {}
    /\ loadedChunksOrder' = <<>>
    /\ UNCHANGED <<chanVars, sessVars, pressureVars, msgVars, storeVars, scene, loads,
                   uploadStoreVars, uploadVars, histVars, libVars>>

\* onDestroy of the viewer: the blob URL of every chunk of the store is
\* revoked and the chunks stay in the store. The component instance ends: its
\* loads in flight reach the PLY loader with scene = null and end in the catch
\* block, which only logs; a later mount is a new instance, whose loadedScenes
\* and loadedChunksOrder start from their initialisers.
OnDestroy ==
    /\ scene
    /\ \A i \in DOMAIN splatChunks : urlRevokes[splatChunks[i].url] < MaxReleases
    /\ urlRevokes' = Revoke(urlRevokes, splatChunks)
    /\ scene' = FALSE
    /\ loadedScenes' = {}
    /\ loadedChunksOrder' = <<>>
    /\ loads' = EmptyBag
    /\ UNCHANGED <<chanVars, sessVars, pressureVars, msgVars, splatChunks,
                   uploadStoreVars, uploadVars, histVars, libVars>>

NextViewer ==
    \/ CreateSessionStart
    \/ CreateSessionOk
    \/ CloseSessionStart
    \/ CloseSessionDone
    \/ OnDestroy
    \/ ViewerMount
    \/ \E id \in KnownIds \cup {Len(urlRevokes) + 1} : ChunkDelivered(id)
    \/ \E l \in BagToSet(loads) : LoadOk(l)
    \/ \E l \in BagToSet(loads) : LoadFail(l)
    \/ ClearScenes

SpecViewer == Init /\ [][NextViewer]_vars

(***************************************************************************)
(* The viewer with chunks that are inserted one at a time: a chunk is      *)
(* inserted when the viewer is mounted and the load of the chunk before it *)
(* has succeeded.  The session and its channel go on beside it.            *)
(***************************************************************************)
NextInTurn ==
    \/ ViewerMount
    \/ scene /\ loads = EmptyBag /\ ChunkDelivered(Len(urlRevokes) + 1)
    \/ \E l \in BagToSet(loads) : LoadOk(l)
    \/ CreateSessionStart
    \/ CreateSessionOk
    \/ \E c \in Channels : OnOpen(c)
    \/ \E c \in Channels : ChannelClose(c)
    \/ ReconnectTimer
    \/ \E c \in Channels : MsgProcessingStart(c)
    \/ \E c \in Channels : MsgError(c)
    \/ \E c \in Channels : MsgLogOnly(c)

SpecInTurn == Init /\ [][NextInTurn]_vars

(***************************************************************************)
(* The rolling log.  An entry is '[time] message'; the model keeps the     *)
(* second the entry was made in.  The other specifications leave the log   *)
(* out.                                                                    *)
(***************************************************************************)
\* addLog, called in second t
AddLog(t) ==
    /\ Len(logged) < MaxLogCalls
    /\ t >= LastSecond(logged)
    /\ statusLogs' = AddLogTo(statusLogs, t)
    /\ logged' = Append(logged, t)
    /\ UNCHANGED <<chanVars, sessVars, pressureVars, msgVars, storeVars, viewerVars,
                   uploadStoreVars, uploadVars, histVars, plyVars, unknownSeen, processingSince>>

\* clearLogs (the Clear button), and statusLogs.set([]) of resetStores
ClearLogs ==
    /\ statusLogs # <<>>
    /\ statusLogs' = <<>>
    /\ logged' = <<>>
    /\ UNCHANGED <<chanVars, sessVars, pressureVars, msgVars, storeVars, viewerVars,
                   uploadStoreVars, uploadVars, histVars, plyVars, unknownSeen, processingSince>>

NextLog ==
    \/ \E t \in 0..MaxLogSeconds : AddLog(t)
    \/ ClearLogs

SpecLog == Init /\ [][NextLog]_vars

(***************************************************************************)
(* PLYMerger.writeGaussianPLY and readGaussianPLY, called on buffers of a  *)
(* few vertices and on payloads cut short.                                 *)
(***************************************************************************)
\* a vertex with 48 SH coefficients: a in its other fields, s among the coefficients
InputVertex(a, s) ==
    [position |-> <<a, "1.5", a>>,
     scale |-> <<"1.5", a, "1.5">>,
     rotation |-> <<a, "1.5", "1.5", a>>,
     opacity |-> a,
     sh |-> [j \in 1..SH_COEFFS |-> IF j \in {1, SH_COEFFS} THEN s ELSE "2.5"]]

InputVertices == {InputVertex(a, s) : a \in FieldFloats, s \in PlyFloats}

\* the buffers of at most n of these vertices
InputBuffers(n) == UNION {[1..k -> InputVertices] : k \in 0..n}

\* the payload at hand is as writeGaussianPLY wrote it
Uncut == plyBlob = WriteGaussianPLY(plyVertices)

\* a call of writeGaussianPLY
CallWrite(vs) ==
    /\ plyVertices' = vs
    /\ plyBlob' = WriteGaussianPLY(vs)
    /\ readResult' = NoResult
    /\ UNCHANGED <<chanVars, sessVars, pressureVars, msgVars, storeVars, viewerVars,
                   uploadStoreVars, uploadVars, histVars, logVars, mergeArg, mergePassed,
                   mergeResult, unknownSeen, processingSince>>

\* the payload loses its end: it keeps the first m lines of its header
CutHeader(m) ==
    /\ Uncut
    /\ readResult = NoResult
    /\ plyBlob' = CutToLines(plyBlob, m)
    /\ UNCHANGED <<chanVars, sessVars, pressureVars, msgVars, storeVars, viewerVars,
                   uploadStoreVars, uploadVars, histVars, logVars, plyVertices, readResult,
                   mergeArg, mergePassed, mergeResult, unknownSeen, processingSince>>

\* the payload loses its end: it keeps its header, k whole records and r bytes
CutData(k, r) ==
    /\ Uncut
    /\ readResult = NoResult
    /\ (k * VERTEX_SIZE) + r < 4 * Len(plyBlob.data)
    /\ plyBlob' = CutToData(plyBlob, (k * VERTEX_SIZE) + r)
    /\ UNCHANGED <<chanVars, sessVars, pressureVars, msgVars, storeVars, viewerVars,
                   uploadStoreVars, uploadVars, histVars, logVars, plyVertices, readResult,
                   mergeArg, mergePassed, mergeResult, unknownSeen, processingSince>>

\* a call of readGaussianPLY on the payload at hand
CallRead ==
    /\ plyBlob # NoBlob
    /\ readResult = NoResult
    /\ readResult' = ReadGaussianPLY(plyBlob)
    /\ UNCHANGED <<chanVars, sessVars, pressureVars, msgVars, storeVars, viewerVars,
                   uploadStoreVars, uploadVars, histVars, logVars, plyVertices, plyBlob,
                   mergeArg, mergePassed, mergeResult, unknownSeen, processingSince>>

NextPly ==
    \/ plyBlob = NoBlob /\ \E vs \in InputBuffers(MaxVertices) : CallWrite(vs)
    \/ \E m \in HeaderCuts : CutHeader(m)
    \/ \E k \in 0..MaxVertices, r \in Remainders : CutData(k, r)
    \/ CallRead

SpecPly == Init /\ [][NextPly]_vars

(***************************************************************************)
(* PLYMerger.mergeChunks, called on arrays of chunks whose payloads were   *)
(* written by writeGaussianPLY and possibly cut short.                     *)
(***************************************************************************)
\* the identifiers of the chunks
MergeIds == {CollationOrder[k] : k \in DOMAIN CollationOrder}

\* the buffers the payloads of the chunks are written from
MergeBuffers ==
    {<<>>,
     <<InputVertex("-0", "1.5")>>,
     <<InputVertex("NaN", "1.5"), InputVertex("NaN", "+0")>>}

\* the payload at hand becomes the blob of one more chunk of the array
AddChunk(id) ==
    /\ plyBlob # NoBlob
    /\ mergeResult = NoResult
    /\ Len(mergeArg) < MaxMergeChunks
    /\ mergeArg' = Append(mergeArg, [id |-> id, blob |-> plyBlob])
    /\ UNCHANGED <<chanVars, sessVars, pressureVars, msgVars, storeVars, viewerVars,
                   uploadStoreVars, uploadVars, histVars, logVars, plyVertices, plyBlob,
                   readResult, mergePassed, mergeResult, unknownSeen, processingSince>>

\* a call of mergeChunks; the sort of line 193 sorts the caller's array in place
CallMerge ==
    /\ mergeResult = NoResult
    /\ mergePassed' = mergeArg
    /\ mergeArg' = IF Len(mergeArg) = 0 THEN mergeArg ELSE SortChunks(mergeArg)
    /\ mergeResult' = MergeChunks(mergeArg)
    /\ UNCHANGED <<chanVars, sessVars, pressureVars, msgVars, storeVars, viewerVars,
                   uploadStoreVars, uploadVars, histVars, logVars, plyVertices, plyBlob,
                   readResult, unknownSeen, processingSince>>

NextMerge ==
    \/ mergeResult = NoResult /\ \E vs \in MergeBuffers : CallWrite(vs)
    \/ CutHeader(2)
    \/ \E k \in {0, 1} : CutData(k, 0)
    \/ \E id \in MergeIds : AddChunk(id)
    \/ CallMerge

SpecMerge == Init /\ [][NextMerge]_vars

(***************************************************************************)
(* Properties of the push channel                                          *)
(***************************************************************************)
NoLiveChannel == \A c \in Channels : chan[c] = "free"

ChannelCreated == \E c \in Channels : chan[c] = "free" /\ chan'[c] # "free"

\* C1: after disconnect() no new channel is opened and the connection state
\* stays Disconnected until connect() is called again by the user, also when
\* disconnect() is called during a backoff wait.
C1_DisconnectSuppressesReconnect ==
    [][(userDisconnected /\ userDisconnected')
         => (~ChannelCreated /\ ~websocketConnected')]_vars

ExpectedWaits == <<1000, 2000, 4000, 8000, 16000>>

\* C7: from a fresh client whose reconnects all fail, the backoff waits are
\* 1000, 2000, 4000, 8000, 16000 ms in that order, there is no sixth wait, and
\* after the fifth failure the client is Disconnected with no attempt pending.
C7_BackoffSequence ==
    pristine =>
        /\ Len(waits) <= Len(ExpectedWaits)
        /\ \A k \in 1..Min(Len(waits), Len(ExpectedWaits)) : waits[k] = ExpectedWaits[k]
        /\ (Len(waits) = Len(ExpectedWaits) /\ reTimers = 0 /\ NoLiveChannel)
              => (~websocketConnected /\ ReadyState(ws) # "OPEN")

\* the fifth reconnect of a fresh client has failed
C7_FiveFailures ==
    /\ pristine
    /\ waits = ExpectedWaits
    /\ reTimers = 0
    /\ NoLiveChannel
    /\ ~websocketConnected

\* C8: when a channel opens, the attempt counter and the backoff wait are both
\* back at their initial values, 0 and 1000 ms.
C8_OpenResetsBackoff ==
    [][(\E c \in Channels : chan[c] = "connecting" /\ chan'[c] = "open")
         => (reconnectAttempts' = 0 /\ reconnectDelay' = InitialReconnectDelay)]_vars

(***************************************************************************)
(* Properties of message handling                                          *)
(***************************************************************************)
\* C6: messages take effect in arrival order; in particular the chunks of the
\* store are in the order of their chunk_complete events.
C6_StoreInArrivalOrder ==
    \A i, j \in DOMAIN splatChunks : i < j => splatChunks[i].ev < splatChunks[j].ev

\* C9: when the handling of a chunk_complete event finishes, the pressure
\* signal is cleared, whether the fetch succeeded, failed, or the event had no
\* URL; in the last case no fetch is issued.
C9_SignalClearedWhenHandled ==
    [][(lastDone' # lastDone)
         => /\ ~isDownloadingChunks'
            /\ (lastDone'.out = "nourl" => fetches' = fetches)]_vars

\* a failed payload fetch has cleared a raised signal
C9_FailedFetchClearedSignal ==
    /\ lastDone.out = "fail"
    /\ lastDone.was
    /\ ~isDownloadingChunks

\* C10: once a session is closed and until a new one is created, the channel
\* is disconnected and the chunk store is empty.
C10_ClosedSessionStoreEmpty ==
    (sessCount > 0 /\ sessionId = 0 /\ ~isClosingSession)
        => (splatChunks = <<>> /\ ~websocketConnected)

(***************************************************************************)
(* Properties of the upload scheduler                                      *)
(***************************************************************************)
\* the requests run r has issued so far
IssuedBy(rs, r) == IF r \in DOMAIN rs THEN rs[r].issued ELSE <<>>

\* C2: no batch is started while the pressure signal is raised, whether the
\* signal was raised during the run or before it started.
C2_NoBatchUnderPressure ==
    [][(\E r \in DOMAIN runs' : IssuedBy(runs', r) # IssuedBy(runs, r))
         => ~isDownloadingChunks]_vars

\* C3: a run that was cancelled issues no further upload request, whatever
\* is called after the cancel.
C3_CancelledRunIssuesNothing ==
    [][\A r \in DOMAIN runs :
         runs[r].cancelled => runs'[r].issued = runs[r].issued]_vars

(***************************************************************************)
(* Properties of the chunk store                                           *)
(***************************************************************************)
\* C4: a chunk_complete event delivered again for a resident chunk id leaves
\* the store as it is, so the ids of the resident chunks are pairwise distinct.
C4_ResidentIdsDistinct ==
    \A i, j \in DOMAIN splatChunks : i # j => splatChunks[i].id # splatChunks[j].id

\* C5: the store never holds more than retentionWindow (2) chunks.
C5_StoreWithinWindow == Len(splatChunks) <= RetentionWindow

(***************************************************************************)
(* Releasing chunks                                                        *)
(***************************************************************************)
\* the "clear scene" button of a mounted viewer has acted
ClearSceneStep == scene /\ scene' /\ loadedScenes # {} /\ loadedScenes' = {}

\* a session close has reset the stores
SessionCloseStep == sessionId # 0 /\ sessionId' = 0

\* C11: a "clear scene" request and a session close both release the blob URL
\* of every chunk that was resident and leave the chunk store empty.
C11_EvictAllReleasesAll ==
    [][(ClearSceneStep \/ SessionCloseStep)
         => /\ splatChunks' = <<>>
            /\ \A i \in DOMAIN splatChunks : urlRevokes'[splatChunks[i].url] > 0]_vars

Resident(u) == \E i \in DOMAIN splatChunks : splatChunks[i].url = u

\* C12: a blob URL is never released a second time, and it has been released
\* once its chunk has left the store.
C12_ReleasedExactlyOnce ==
    \A u \in DOMAIN urlRevokes :
        /\ urlRevokes[u] <= 1
        /\ ~Resident(u) => urlRevokes[u] = 1

(***************************************************************************)
(* Window eviction                                                         *)
(***************************************************************************)
\* the cleanup of loadSplatScene has removed chunks from the store
EvictionStep ==
    /\ Len(loadedChunksOrder') > Len(loadedChunksOrder)
    /\ splatChunks' # splatChunks

\* s is what is left of t when its first elements are removed
IsSuffix(s, t) ==
    /\ Len(s) <= Len(t)
    /\ s = SubSeq(t, Len(t) - Len(s) + 1, Len(t))

\* C13: a window eviction removes the chunks inserted first: the chunks left
\* in the store are the ones inserted last, whatever the order in which the
\* loads in flight complete.
C13_EvictsOldestInserted ==
    [][EvictionStep => IsSuffix(splatChunks', splatChunks)]_vars

\* the store's chunk ids, in store order
IdSeq(s) == [i \in DOMAIN s |-> s[i].id]

\* the chunks c1..cn inserted so far
Inserted == [k \in 1..Len(urlRevokes) |-> k]

\* C14: after n distinct chunks inserted one at a time, each loaded before
\* the next is inserted, the store holds the last two of them, c(n-1) and
\* cn, in that order.
C14_LastTwoResident ==
    loads = EmptyBag =>
        IdSeq(splatChunks) = SubSeq(Inserted,
                                    IF Len(urlRevokes) > RetentionWindow
                                    THEN Len(urlRevokes) - RetentionWindow + 1 ELSE 1,
                                    Len(urlRevokes))

\* four chunks were inserted in turn and the first two have been evicted
C14_FourInsertedTwoLeft ==
    /\ loads = EmptyBag
    /\ loadedChunksOrder = <<1, 2, 3, 4>>
    /\ IdSeq(splatChunks) = <<3, 4>>
    /\ urlRevokes = <<1, 1, 0, 0>>

(***************************************************************************)
(* Batches of an upload run                                                *)
(***************************************************************************)
\* the run r has issued upload requests in this step
Issues(r) == runs'[r].issued # runs[r].issued

\* the files of the requests the run r has issued in this step
JustIssued(r) ==
    Range(SubSeq(runs'[r].issued, Len(runs[r].issued) + 1, Len(runs'[r].issued)))

\* C15: when a run issues the requests of its next batch, no request of an
\* earlier batch of that run is still in flight: its requests in flight are
\* those of the batch just issued.
C15_BatchesDoNotOverlap ==
    [][\A r \in DOMAIN runs : Issues(r) => runs'[r].pending \subseteq JustIssued(r)]_vars

\* a run is in its second batch, the first one having resolved
C15_SecondBatchInFlight ==
    \E r \in DOMAIN runs :
        /\ ~runs[r].cancelled
        /\ runs[r].pc = "batch"
        /\ runs[r].i > 0
        /\ runs[r].pending = {runs[r].issued[2]}

\* the least number of batches of c files that hold n files
CeilDiv(n, c) == (n + c - 1) \div c

\* C16: with concurrency c a run that is not cancelled cuts its n files into
\* ceil(n/c) batches: the batch at loop index i = j*c holds the files at queue
\* positions j*c .. min(n, (j+1)*c) - 1, and at its end every file was
\* requested exactly once, in queue order.
C16_BatchesPartitionQueue ==
    \A r \in DOMAIN runs :
        LET rec == runs[r]
            c == concurrentUploads
        IN /\ rec.pc \in {"batch", "delay"} =>
                 /\ rec.i % c = 0
                 /\ rec.issued = SubSeq(uploadQueue, 1, Min(rec.i + c, Len(uploadQueue)))
                 /\ rec.pending \subseteq
                        {uploadQueue[k] : k \in (rec.i + 1)..Min(rec.i + c, Len(uploadQueue))}
           /\ rec.pc = "paused" =>
                 /\ rec.i % c = 0
                 /\ rec.issued = SubSeq(uploadQueue, 1, rec.i)
           /\ rec.pc = "done" =>
                 /\ rec.issued = rec.files
                 /\ rec.i = c * (CeilDiv(Len(rec.files), c) - 1)

\* 7 files with concurrency 3: the third batch holds the seventh file alone
C16_SevenFilesThirdBatch ==
    /\ concurrentUploads = 3
    /\ Len(uploadQueue) = 7
    /\ Len(runs) = 1
    /\ runs[1].pc = "batch"
    /\ runs[1].i = 6
    /\ runs[1].pending = {<<1, 7>>}

\* the files of a run whose upload did not succeed
FailedOf(rec) == Range(rec.files) \ Range(uploadedImages)

\* C17: failed uploads end neither their batch nor the run: at the end of a
\* run of n files that is not cancelled every file has been requested, and
\* the report is n - |F| succeeded of n, F being the files that failed.
C17_FailuresDoNotAbort ==
    \A r \in DOMAIN runs :
        runs[r].pc = "done" =>
            /\ Range(runs[r].issued) = Range(runs[r].files)
            /\ Range(uploadedImages) \subseteq Range(runs[r].files)
            /\ runs[r].report =
                  <<Len(runs[r].files) - Cardinality(FailedOf(runs[r])), Len(runs[r].files)>>

\* 7 files with concurrency 3, file 4 failed alone: 6 succeeded of 7
C17_FourthOfSevenFailed ==
    /\ concurrentUploads = 3
    /\ Len(runs) = 1
    /\ runs[1].pc = "done"
    /\ Len(runs[1].files) = 7
    /\ FailedOf(runs[1]) = {<<1, 4>>}
    /\ runs[1].report = <<6, 7>>

(***************************************************************************)
(* Single flight                                                           *)
(***************************************************************************)
\* processUploadQueue has been called in this step: it was rejected, or it
\* started a run
EnqueueStep == rejected' # rejected \/ Len(runs') # Len(runs)

\* C18: a call of processUploadQueue while a run is in progress starts no
\* run, issues no request and leaves the queue, the progress and the
\* ownership of the run in progress as they are.
C18_EnqueueRejectedWhileRunning ==
    [][(isProcessing /\ EnqueueStep)
         => /\ runs' = runs
            /\ uploadQueue' = uploadQueue
            /\ uploadProgress' = uploadProgress
            /\ uploadedImages' = uploadedImages
            /\ isUploading' = isUploading
            /\ isProcessing']_vars

\* a call was rejected while a run had requests in flight
C18_RejectedDuringBatch ==
    /\ rejected > 0
    /\ isProcessing
    /\ \E r \in DOMAIN runs : runs[r].pc = "batch" /\ runs[r].pending # {}

(***************************************************************************)
(* Resuming after a pause                                                  *)
(***************************************************************************)
Paused(r) == r \in DOMAIN runs /\ runs[r].pc = "paused"

Unfinished(r) == r \in DOMAIN runs /\ runs[r].pc # "done"

Ended(r) == r \in DOMAIN runs /\ (runs[r].pc = "done" \/ runs[r].cancelled)

\* C19: a paused run does not stay paused while the pressure signal stays
\* cleared, and a run that is never cancelled finishes unless the signal is
\* raised again and again: from a state where the run is paused it leaves the
\* pause or the signal is raised, and from a state where it is unfinished it
\* ends or the signal is raised.
C19_PausedRunResumes ==
    \A r \in 1..MaxRuns :
        /\ Paused(r) ~> (~Paused(r) \/ isDownloadingChunks)
        /\ Unfinished(r) ~> (Ended(r) \/ isDownloadingChunks)

\* a run is paused and the signal has just been cleared
C19_PausedAndCleared ==
    \E r \in DOMAIN runs :
        /\ runs[r].pc = "paused"
        /\ ~runs[r].cancelled
        /\ isProcessing
        /\ ~isDownloadingChunks
        /\ msgCount > 1

(***************************************************************************)
(* Requests in flight at a cancel                                          *)
(***************************************************************************)
\* a request of the run r that was in flight when the run was cancelled has
\* resolved in this step
ResolvedAfterCancel(r) ==
    \E file \in runs[r].atCancel \cap runs[r].pending : file \notin runs'[r].pending

\* C20: a request that was in flight when cancelUpload was called changes
\* neither the upload progress nor the list of uploaded images when it
\* resolves.
C20_ResultsAfterCancelIgnored ==
    [][\A r \in DOMAIN runs :
          ResolvedAfterCancel(r) => /\ uploadProgress' = uploadProgress
                                    /\ uploadedImages' = uploadedImages]_vars

(***************************************************************************)
(* Properties of the connect timeout and of message handling               *)
(***************************************************************************)
\* the 5 s timer of the connect() that made channel c fires while c has not opened
TimeoutOfUnopened(c) ==
    /\ tmo[c] /\ ~tmo'[c]
    /\ chan[c] = "connecting" /\ chan'[c] = "connecting"

\* C21: if a channel has not opened 5 s after connect() was called, the
\* connect operation resolves as failed (and the channel is left alive, so
\* that it can still open later and make the client Connected).
C21_TimeoutResolvesFailed ==
    [][\A c \in Channels :
         TimeoutOfUnopened(c) => (prom'[c] = "none" /\ chan'[c] = "connecting")]_vars

(***************************************************************************)
(* Properties of the rolling log                                           *)
(***************************************************************************)
\* C30: the rolling log never holds more than 50 entries: after n calls of
\* addLog it holds the most recent min(n, 50) entries in order of arrival.
C30_LogKeepsLastFifty ==
    /\ Len(statusLogs) = Min(Len(logged), 50)
    /\ statusLogs = SubSeq(logged, Len(logged) - Len(statusLogs) + 1, Len(logged))

\* 52 entries were logged, the first two were dropped, and the seconds of the
\* entries tell the dropped ones from the kept ones
C30_TwoDropped ==
    /\ Len(logged) = 52
    /\ logged[2] < logged[3]
    /\ Len(statusLogs) = 50
    /\ statusLogs[1] = logged[3]

\* a message of an unrecognized type is handled in this step
UnknownHandled == unknownSeen' # unknownSeen

\* C22: an inbound message of an unrecognized type changes nothing but the
\* log: connection state, reconnect counters, chunk metadata, chunk store and
\* pressure signal are left as they were, and the channel goes on receiving.
C22_UnknownTypeChangesNothing ==
    [][UnknownHandled =>
         UNCHANGED <<chanVars, sessVars, pressureVars, chunksInfo, fetches, storeVars>>]_vars

\* a message of an unrecognized type was handled on an open channel while the
\* pressure signal was raised and a chunk was in the store
C22_UnknownUnderPressure ==
    /\ unknownSeen > 0
    /\ isDownloadingChunks
    /\ splatChunks # <<>>
    /\ chunksInfo # <<>>
    /\ \E c \in Channels : chan[c] = "open"

\* C23: in every reachable state the backoff wait is between 1000 ms and
\* 30000 ms and the attempt counter is between 0 and maxReconnectAttempts,
\* also when the close events of several sockets start reconnects side by side.
C23_BackoffAndAttemptsBounded ==
    /\ reconnectDelay >= 1000 /\ reconnectDelay <= 30000
    /\ reconnectAttempts >= 0 /\ reconnectAttempts <= maxReconnectAttempts

\* the counter and the wait are both at their caps while two reconnects,
\* started by the close events of two sockets, wait side by side
C23_BothAtCapTwoPending ==
    /\ reconnectAttempts = maxReconnectAttempts
    /\ reconnectDelay = MaxReconnectDelay
    /\ reTimers >= 2

(***************************************************************************)
(* Properties of the PLY codec                                             *)
(***************************************************************************)
\* C24: for every buffer of one or more vertices with exactly 48 SH
\* coefficients each, whose fields are float32 values (signed zeros and NaN
\* included), reading what writeGaussianPLY wrote gives the same vertices in
\* the same order, every field bit-identical.
C24_RoundTrip ==
    (Uncut /\ Len(plyVertices) >= 1 /\ readResult # NoResult)
        => readResult = [kind |-> "ok", vertices |-> plyVertices]

\* the fields of a vertex in the order of the record
Flatten(v) == v.position \o v.scale \o v.rotation \o <<v.opacity>> \o v.sh

\* the whole records the binary part of the payload at hand holds
WholeRecords == (ByteLength(plyBlob) - BytesOf(plyBlob.header)) \div VERTEX_SIZE

\* the header of the payload at hand is whole and declares N >= 1 vertices
DeclaresSome ==
    /\ plyBlob # NoBlob
    /\ Len(plyVertices) >= 1
    /\ plyBlob.header = HeaderLines(Len(plyVertices))

\* C25: a payload whose header (of length h) declares N >= 1 vertices and
\* which is cut to h + k*236 + r bytes, 0 <= k <= N, 0 <= r < 236, is read as
\* exactly its first k records, without error; no more vertices than declared
\* are returned and nothing is read past the end of the payload.
C25_TruncatedPayloadReadsWholeRecords ==
    (DeclaresSome /\ readResult # NoResult)
        => /\ readResult.kind = "ok"
           /\ Len(readResult.vertices) = WholeRecords
           /\ WholeRecords <= Len(plyVertices)
           /\ \A i \in 1..WholeRecords :
                Flatten(readResult.vertices[i])
                    = SubSeq(plyBlob.data, ((i - 1) * 59) + 1, i * 59)

\* a payload of two vertices was cut after its first record and 235 bytes of
\* the second, and read as one vertex
C25_CutInsideSecondRecord ==
    /\ DeclaresSome
    /\ Len(plyVertices) = 2
    /\ ByteLength(plyBlob) = BytesOf(plyBlob.header) + 236 + 235
    /\ readResult.kind = "ok"
    /\ Len(readResult.vertices) = 1

\* the header of the payload at hand has a line `element vertex N`
HasVertexDeclaration ==
    /\ plyBlob # NoBlob
    /\ \E i \in DOMAIN plyBlob.header :
         plyBlob.header[i].text = "element vertex" /\ plyBlob.header[i].n >= 0

\* C26: readGaussianPLY fails only when the header holds no vertex-count
\* declaration: a payload whose header has a line `element vertex N`, N >= 0
\* (N = 0 as writeGaussianPLY writes it for an empty buffer), is read
\* without error.
C26_DeclaredCountIsRead ==
    (HasVertexDeclaration /\ readResult # NoResult) => readResult.kind = "ok"

(***************************************************************************)
(* Properties of the merge                                                 *)
(***************************************************************************)
\* chunk identifiers in ascending (lexicographic) order
AscendingIds == <<"10", "a", "b">>

RECURSIVE VerticesOf(_)
\* the vertices the chunks of a sequence decode to, one chunk after the other
VerticesOf(chs) ==
    IF chs = <<>> THEN <<>>
    ELSE ReadGaussianPLY(Head(chs).blob).vertices \o VerticesOf(Tail(chs))

\* the chunks of a sequence that carry the k-th identifier
WithId(chs, k) == LET Is(c) == c.id = AscendingIds[k] IN SelectSeq(chs, Is)

\* every chunk that was passed decodes without error
AllDecodable ==
    \A i \in DOMAIN mergePassed : ReadGaussianPLY(mergePassed[i].blob).kind = "ok"

\* C27: mergeChunks concatenates the chunks' vertices in ascending order of
\* chunk identifier, whatever the order the chunks were passed in, and the
\* merged payload holds as many vertices as the chunks decode to together.
C27_MergedInIdOrder ==
    (mergeResult # NoResult /\ mergeResult.kind = "ok")
        => /\ mergeResult.blob =
                WriteGaussianPLY(VerticesOf(WithId(mergePassed, 1)) \o
                                 VerticesOf(WithId(mergePassed, 2)) \o
                                 VerticesOf(WithId(mergePassed, 3)))
           /\ Len(mergeResult.blob.data) = 59 * Len(VerticesOf(mergePassed))

\* chunk "b" with two vertices was passed before chunk "a" with one, and the
\* merged payload starts with the vertex of "a"
C27_BThenA ==
    /\ Len(mergePassed) = 2
    /\ mergePassed[1].id = "b" /\ mergePassed[2].id = "a"
    /\ mergePassed[1].blob = WriteGaussianPLY(<<InputVertex("NaN", "1.5"),
                                                InputVertex("NaN", "+0")>>)
    /\ mergePassed[2].blob = WriteGaussianPLY(<<InputVertex("-0", "1.5")>>)
    /\ mergeResult.kind = "ok"
    /\ mergeResult.blob = WriteGaussianPLY(<<InputVertex("-0", "1.5"),
                                             InputVertex("NaN", "1.5"),
                                             InputVertex("NaN", "+0")>>)

\* the call of mergeChunks failed with one of its two empty-merge errors
EmptyMergeError ==
    /\ mergeResult.kind = "error"
    /\ mergeResult.message \in {"No chunks to merge", "No gaussians found to merge"}
    /\ "blob" \notin DOMAIN mergeResult

\* C28: on chunks that all decode, mergeChunks fails with an empty-merge
\* error, and produces no payload, exactly when no chunk is given or every
\* chunk decodes to zero vertices; otherwise it succeeds.
C28_EmptyMergeFails ==
    (mergeResult # NoResult /\ AllDecodable)
        => IF VerticesOf(mergePassed) = <<>>
           THEN EmptyMergeError
           ELSE mergeResult.kind = "ok"

\* two chunks were passed, both decode to zero vertices, and the merge failed
C28_TwoChunksNoVertices ==
    /\ Len(mergePassed) = 2
    /\ AllDecodable
    /\ VerticesOf(mergePassed) = <<>>
    /\ mergeResult = MergeError("No gaussians found to merge")

\* C29: if one chunk fails to decode, the merge fails with that error and
\* produces no payload; the chunk is never skipped and the others merged.
C29_DecodeErrorAbortsMerge ==
    (mergeResult # NoResult /\ ~AllDecodable)
        => /\ mergeResult.kind = "error"
           /\ \E i \in DOMAIN mergePassed : mergeResult = ReadGaussianPLY(mergePassed[i].blob)
           /\ "blob" \notin DOMAIN mergeResult

\* a chunk with one vertex and, after it in identifier order, a chunk whose
\* payload has no vertex count were passed, and the merge failed
C29_GoodThenCorrupt ==
    /\ Len(mergePassed) = 2
    /\ mergePassed[1].id = "a" /\ mergePassed[2].id = "b"
    /\ ReadGaussianPLY(mergePassed[1].blob).kind = "ok"
    /\ Len(ReadGaussianPLY(mergePassed[1].blob).vertices) = 1
    /\ mergePassed[2].blob.header = SubSeq(HeaderLines(0), 1, 2)
    /\ mergeResult.kind = "error"

\* C39: mergeChunks does not modify its input: after a merge, successful or
\* failed, the array the caller passed holds the same chunks in the same order.
C39_MergeLeavesInputAlone ==
    [][mergeResult' # mergeResult => mergeArg' = mergeArg]_vars

(***************************************************************************)
(* Further properties of the push channel                                  *)
(***************************************************************************)
\* the sockets that are open or connecting
LiveChannels == {c \in Channels : chan[c] \in {"connecting", "open"}}

\* C32: at any time at most one channel created by the client is open or
\* connecting.
C32_AtMostOneLiveChannel == Cardinality(LiveChannels) <= 1

(***************************************************************************)
(* Further properties of the pressure signal                               *)
(***************************************************************************)
\* C31: from the handling of chunk_processing_start for a chunk until a
\* chunk_complete for it or an error has been handled, the pressure signal is
\* raised, also when the payload fetch of an earlier chunk completes in between.
C31_RaisedWhileProcessing == processingSince > 0 => isDownloadingChunks

(***************************************************************************)
(* Further properties of the upload scheduler                              *)
(***************************************************************************)
\* C37: the upload progress percentage, (num / den) * 100, is a number in
\* 0..100 in every reachable state, also after cancelUpload() was called
\* while uploads were in flight.
C37_ProgressWithinRange ==
    /\ uploadProgress.den > 0
    /\ 0 <= uploadProgress.num
    /\ uploadProgress.num <= uploadProgress.den

\* the upload requests run r has issued for a file
RequestsFor(r, file) == {k \in DOMAIN runs[r].issued : runs[r].issued[k] = file}

\* C34: in a run that is not cancelled every queued file gets exactly one
\* upload request, also when setConcurrentUploads changes the concurrency
\* while a batch is in flight: no file is skipped and none is requested twice.
C34_EachFileRequestedOnce ==
    (\A r \in DOMAIN runs : ~runs[r].cancelled)
        => \A r \in DOMAIN runs :
               \A k \in DOMAIN runs[r].files :
                   /\ Cardinality(RequestsFor(r, runs[r].files[k])) <= 1
                   /\ runs[r].pc = "done" => Cardinality(RequestsFor(r, runs[r].files[k])) = 1

\* the upload requests issued for a file, by whichever run
RequestsOf(file) ==
    UNION {{<<r, k>> : k \in RequestsFor(r, file)} : r \in DOMAIN runs}

\* run r was started after a cancelUpload() and has not been cancelled itself
StartedAfterCancel(r) ==
    /\ r \in DOMAIN runs
    /\ ~runs[r].cancelled
    /\ \E p \in 1..(r - 1) : runs[p].cancelled

\* C33: a run started after cancelUpload() attempts every one of its files
\* exactly once and is ended only by its own completion or its own cancel,
\* whatever the timing of the cancelled run's remaining steps.
C33_RunAfterCancelIsItsOwn ==
    \A r \in DOMAIN runs :
        StartedAfterCancel(r)
            => \A k \in DOMAIN runs[r].files :
                   /\ Cardinality(RequestsOf(runs[r].files[k])) <= 1
                   /\ runs[r].pc = "done" => Cardinality(RequestsOf(runs[r].files[k])) = 1

(***************************************************************************)
(* The viewer with chunks whose ids are all new: no id is delivered twice, *)
(* the scene is not cleared and the viewer is not destroyed.  Chunks may   *)
(* arrive while loads are in flight.                                       *)
(***************************************************************************)
NextFresh ==
    \/ CreateSessionStart
    \/ CreateSessionOk
    \/ ViewerMount
    \/ ChunkDelivered(Len(urlRevokes) + 1)
    \/ \E l \in BagToSet(loads) : LoadOk(l)
    \/ \E l \in BagToSet(loads) : LoadFail(l)

SpecFresh == Init /\ [][NextFresh]_vars

\* the positions of the eviction ledger that hold chunk id
LedgerEntries(id) == {k \in DOMAIN loadedChunksOrder : loadedChunksOrder[k] = id}

\* C35: every chunk is loaded into the scene and appended to the eviction
\* ledger (loadedChunksOrder) at most once, also when further chunks arrive
\* while its load is in flight.
C35_LoadedAtMostOnce ==
    \A k \in DOMAIN loadedChunksOrder : Cardinality(LedgerEntries(loadedChunksOrder[k])) <= 1

(***************************************************************************)
(* The upload scheduler over sessions that are created and closed, with a  *)
(* channel that raises and clears the pressure signal and is closed by     *)
(* disconnect() when its session is closed.  The concurrency is the        *)
(* initial one and there is no wait between batches.  Timers fire and      *)
(* upload requests resolve, as in SpecPause; what the user and the server  *)
(* do, a call of cancelUpload included, is not forced.                     *)
(***************************************************************************)
NextStall ==
    \/ CreateSessionStart
    \/ CreateSessionOk
    \/ CloseSessionStart
    \/ CloseSessionDone
    \/ \E c \in Channels : OnOpen(c)
    \/ \E c \in Channels : chan[c] = "closingC" /\ ChannelFail(c)
    \/ \E c \in Channels : chan[c] = "closingO" /\ ChannelClose(c)
    \/ \E c \in Channels : MsgProcessingStart(c)
    \/ \E c \in Channels : MsgError(c)
    \/ \E n \in 1..MaxFiles : StartRun(n, 0)
    \/ \E r \in DOMAIN runs : PollWake(r)
    \/ \E r \in DOMAIN runs : \E file \in runs[r].pending : UploadOk(r, file)
    \/ \E r \in DOMAIN runs : \E file \in runs[r].pending : UploadFail(r, file)
    \/ CancelUpload

SpecStall == Init /\ [][NextStall]_vars /\ FairUpload

\* no socket is open or connecting and no reconnection attempt is pending
ChannelGone == LiveChannels = {} /\ reTimers = 0

\* C36: if the channel closes (by disconnect() or because the reconnection
\* attempts are exhausted) while the pressure signal is raised, the signal
\* does not stay raised forever: it is cleared in the end, and a run paused
\* by it resumes or ends without a call of cancelUpload().
C36_ClosedChannelReleasesPause ==
    /\ (isDownloadingChunks /\ ChannelGone) ~> ~isDownloadingChunks
    /\ \A r \in 1..MaxRuns :
           (Paused(r) /\ ChannelGone) ~> (~Paused(r) \/ runs[r].cancelled)

(***************************************************************************)
(* The pause flag and the pressure signal                                  *)
(***************************************************************************)
\* a step in which cancelUpload() cancels a run in progress
CancelStep == \E r \in DOMAIN runs : ~runs[r].cancelled /\ runs'[r].cancelled

\* C38: the scheduler's pause flag (shouldPause) is true only while the
\* pressure signal is raised, in every reachable state, and a cancelUpload()
\* leaves the flag false.
C38_PauseFlagOnlyUnderPressure ==
    /\ [](shouldPause => isDownloadingChunks)
    /\ [][CancelStep => ~shouldPause']_vars

\* a run was cancelled while it was paused by the signal; the signal is still
\* raised and the flag is false
C38_CancelledWhilePaused ==
    \E r \in DOMAIN runs :
        /\ runs[r].cancelled
        /\ runs[r].pc = "paused"
        /\ isDownloadingChunks
        /\ ~shouldPause
        /\ ~isProcessing

====
